---- MODULE Spec2Model ----
(***************************************************************************)
(* vault-sync: replication of the secrets under a watched prefix of a      *)
(* source store to a destination store.  main() (src/src/main.rs) connects *)
(* to both stores, starts the workers in a fixed order, manages the audit  *)
(* device (the forwarding sink) and installs the signal handler.  The      *)
(* workers' bodies live in the modules sync, vault and audit; they are     *)
(* modelled from the design document.                                      *)
(***************************************************************************)
EXTENDS Integers, Sequences, FiniteSets, TLC

\* ---------------------------------------------------------------- bounds
MaxVal    == 2      \* secret payload handles 1..MaxVal, 0 = no secret
MaxQueue  == 2      \* events waiting in the channel
MaxEvents == 2      \* events sent on the channel during one run
MaxRuns   == 2      \* process runs (restarts)
MaxConns  == 2      \* connections open to the listener at a time

\* ---------------------------------------------------------------- paths
SrcPrefix == <<"secret", "app">>
DstPrefix == <<"secret", "app-copy">>
PathA     == <<"secret", "app", "a">>
PathBC    == <<"secret", "app", "b", "c">>
PathOut   == <<"secret", "other", "z">>

WatchedLeaves == {PathA, PathBC}
SrcLeaves     == WatchedLeaves \cup {PathOut}
Values        == 1..MaxVal

IsPrefix(pre, p) == /\ Len(pre) < Len(p)
                    /\ SubSeq(p, 1, Len(pre)) = pre

\* the apply stage's path rewrite: the leading source prefix is replaced
\* by the destination prefix
Rewrite(srcPre, dstPre, p) == dstPre \o SubSeq(p, Len(srcPre) + 1, Len(p))

DstLeaves == {Rewrite(SrcPrefix, DstPrefix, p) : p \in WatchedLeaves}

\* ---------------------------------------------------------------- events
None == [kind |-> "none"]
Put(p, v)   == [kind |-> "Put", path |-> p, value |-> v]
Delete(p)   == [kind |-> "Delete", path |-> p, value |-> 0]

\* a line of the audit feed: a parsed record, or a line that is not a record
Record(verb, p, outcome, v) ==
    [json |-> TRUE, verb |-> verb, path |-> p, outcome |-> outcome, value |-> v]
BadLine == [json |-> FALSE, verb |-> "garbage", path |-> <<>>, outcome |-> "", value |-> 0]
NoLine  == [json |-> FALSE, verb |-> "", path |-> <<>>, outcome |-> "", value |-> 0]

\* records the source store emits for requests that change nothing under
\* the watched prefix, and a malformed line
NoiseLines ==
    { BadLine,
      Record("read",   PathA,   "success", 0),
      Record("write",  PathA,   "error",   1),
      Record("delete", PathBC,  "error",   0),
      Record("write",  PathOut, "success", 1),
      Record("delete", PathOut, "success", 0) }

\* ---------------------------------------------------------------- state
VARIABLES
    run,          \* number of this process run
    pc,           \* main(): the line it is about to execute
    exitStatus,   \* "running", or how the process ended
    started,      \* worker threads spawned by this run
    handler,      \* the ctrlc handler is installed
    sigPending,   \* a termination signal was delivered to the handler
    staleSink,    \* a sink was registered when this run began
    dryRun,       \* --dry-run was given
    holders,      \* per store: the threads inside a lock() of its session mutex
    tokPc,        \* per store: the renewal thread: "sleep", "renew", "commit",
                  \* and "retry" (asleep after a renewal that failed)
    cred,         \* per store: the generation of the session's credential
    expiry,       \* per store: the generation the session's expiry belongs to
    sinks,        \* audit devices registered under the engine's name (source store)
    bound,        \* the listener socket is bound
    connOpen,     \* an audit connection is accepted (its ingestion task runs)
    line,         \* the audit line the ingestion task has read and not handled yet
    others,       \* connections accepted from other peers and still open
    tasks,        \* ingestion threads that are running
    sinceBad,     \* the audit connection's task: "clean" while it has read no
                  \* malformed line, "bad" once it has read one, "sent" once it
                  \* has sent an event after that
    src,          \* source store: leaf path -> value, 0 = absent
    dst,          \* destination store: leaf path -> value, 0 = absent
    queue,        \* the mpsc channel
    sentLog,      \* events sent on the channel in this run, in order
    nRecv,        \* events received from the channel in this run
    dstCalls,     \* write/delete calls issued against the destination in this run
    lastCall,     \* the path of the latest of these calls, <<>> before the first
    scanPc,       \* scanner: "sleep", "list", "scan", "done", and "retry" (asleep
                  \* after a cycle that was aborted)
    scanTodo,     \* scanner: leaves listed and not read yet
    scanHeld,     \* scanner: event built from the last read, not sent yet
    scanLog,      \* events the current scan cycle has sent
    srcStable,    \* the source has not changed since the current scan began
    quiet,        \* since the current scan began: nothing but the scan itself
    failed,       \* paths with a Put whose destination call failed in this run
    failedDel     \* paths with a Delete whose destination call failed in this run

sessVars  == <<holders, tokPc, cred, expiry>>
procVars  == <<run, pc, exitStatus, started, handler, sigPending, staleSink, dryRun, sessVars>>
sinkVars  == <<sinks, bound>>
feedVars  == <<connOpen, line, others, tasks, sinceBad>>
storeVars == <<src, dst>>
chanVars  == <<queue, sentLog, nRecv, dstCalls, lastCall, failed, failedDel>>
scanVars  == <<scanPc, scanTodo, scanHeld, scanLog, srcStable>>
vars == <<procVars, sinkVars, feedVars, storeVars, chanVars, scanVars, quiet>>

Workers == {"src_token", "dst_token", "sync", "listener", "scanner"}
Stores  == {"src", "dst"}
Running == exitStatus = "running"


\* ---------------------------------------------------------------- Init
NoSecrets(leaves) == [p \in leaves |-> 0]

\* process-local state at the start of a run
FreshProcess ==
    /\ pc = "l38"
    /\ exitStatus = "running"
    /\ started = {}
    /\ handler = FALSE
    /\ sigPending = FALSE
    /\ holders = [s \in Stores |-> {}]
    /\ tokPc = [s \in Stores |-> "sleep"]
    /\ cred = [s \in Stores |-> 0]
    /\ expiry = [s \in Stores |-> 0]
    /\ bound = FALSE
    /\ connOpen = FALSE
    /\ line = NoLine
    /\ others = 0
    /\ tasks = 0
    /\ sinceBad = "clean"
    /\ queue = <<>>
    /\ sentLog = <<>>
    /\ nRecv = 0
    /\ dstCalls = 0
    /\ lastCall = <<>>
    /\ scanPc = "sleep"
    /\ scanTodo = <<>>
    /\ scanHeld = None
    /\ scanLog = <<>>
    /\ srcStable = FALSE
    /\ quiet = FALSE
    /\ failed = {}
    /\ failedDel = {}

Init ==
    /\ run = 1
    /\ staleSink = FALSE
    /\ dryRun \in BOOLEAN
    /\ sinks = 0
    /\ src \in {s \in [SrcLeaves -> 0..MaxVal] : s[PathOut] = 1}
    /\ dst = NoSecrets(DstLeaves)
    /\ FreshProcess

\* ---------------------------------------------------------------- sessions
\* main.rs:44 and 49   the renewal thread of each store
TokenOf(s) == IF s = "src" THEN "src_token" ELSE "dst_token"

\* a session shared without mutual exclusion
LockFree_open(s) == TRUE

\* main.rs:43 and 48   Arc<Mutex<VaultClient>>: lock() returns when no other
\* thread is inside
LockFree(s) == holders[s] = {}

Lock(s, t)   == holders' = [holders EXCEPT ![s] = @ \cup {t}]
Unlock(s, t) == holders' = [holders EXCEPT ![s] = @ \ {t}]

\* ---------------------------------------------------------------- main()
pipeVars == <<feedVars, storeVars, chanVars, scanVars, quiet>>

\* the process is gone: its threads, channel and sockets with it
ProcessGone ==
    /\ holders' = [s \in Stores |-> {}]
    /\ tokPc' = [s \in Stores |-> "sleep"]
    /\ cred' = [s \in Stores |-> 0]
    /\ expiry' = [s \in Stores |-> 0]
    /\ bound' = FALSE
    /\ connOpen' = FALSE
    /\ line' = NoLine
    /\ others' = 0
    /\ tasks' = 0
    /\ sinceBad' = "clean"
    /\ queue' = <<>>
    /\ scanPc' = "sleep"
    /\ scanTodo' = <<>>
    /\ scanHeld' = None
    /\ scanLog' = <<>>
    /\ srcStable' = FALSE
    /\ quiet' = FALSE
    /\ UNCHANGED <<storeVars, sentLog, nRecv, dstCalls, lastCall, failed, failedDel>>

\* an error returned from main: the process exits with a non-zero status
Fatal ==
    /\ exitStatus' = "fatal"
    /\ ProcessGone
    /\ UNCHANGED <<run, pc, started, handler, sigPending, staleSink, dryRun, sinks>>

\* main goes on to the next line
Step(next) ==
    /\ pc' = next
    /\ UNCHANGED <<run, exitStatus, handler, sigPending, staleSink, dryRun>>
    /\ UNCHANGED <<sessVars, bound, pipeVars>>

\* thread::spawn
Spawn(w, next) ==
    /\ started' = started \cup {w}
    /\ Step(next)

\* main.rs:38   load_config(...)?
load_config ==
    /\ Running /\ pc = "l38"
    /\ \/ Step("l42") /\ UNCHANGED <<started, sinks>>
       \/ Fatal

\* main.rs:42 and 47   vault_client(&config.<store>.host)?
vault_client(at, next) ==
    /\ Running /\ pc = at
    /\ \/ Step(next) /\ UNCHANGED <<started, sinks>>
       \/ Fatal

\* main.rs:44 and 49   token_worker(...) spawns the renewal thread
token_worker(at, w, next) ==
    /\ Running /\ pc = at
    /\ Spawn(w, next)
    /\ UNCHANGED sinks

\* main.rs:51-59   the channel is created and the apply thread spawned
sync_worker ==
    /\ Running /\ pc = "l51"
    /\ Spawn("sync", "l61")
    /\ UNCHANGED sinks

\* the registration manager of the source store: deregistering removes
\* every sink under the engine's name and succeeds when there is none;
\* registering adds one
Deregister(n) == 0
Register(n)   == n + 1
Exists(n)     == n > 0

\* startup that registers without deregistering first
delete_audit_device_skipped ==
    /\ Running /\ pc = "l61"
    /\ LockFree("src")
    /\ sinks' = sinks
    /\ Step("l62") /\ UNCHANGED started

\* main.rs:61   delete_audit_device(..., &...lock().unwrap()): returns nothing
delete_audit_device ==
    /\ Running /\ pc = "l61"
    /\ LockFree("src")
    /\ sinks' = Deregister(sinks)
    /\ Step("l62") /\ UNCHANGED started

\* main.rs:62   log_sync_worker(...)?: bind, then spawn the accept loop
log_sync_worker ==
    /\ Running /\ pc = "l62"
    /\ \/ /\ bound' = TRUE
          /\ started' = started \cup {"listener"}
          /\ pc' = "l63"
          /\ UNCHANGED <<run, exitStatus, handler, sigPending, staleSink, dryRun>>
          /\ UNCHANGED <<sessVars, sinks, pipeVars>>
       \/ Fatal

\* main.rs:63   add_audit_device(..., &...lock().unwrap())?
add_audit_device ==
    /\ Running /\ pc = "l63"
    /\ LockFree("src")
    /\ \/ /\ sinks' = Register(sinks)
          /\ Step("l64") /\ UNCHANGED started
       \/ Fatal

\* main.rs:64   ctrlc_handler(...)?: installs the handler
ctrlc_handler ==
    /\ Running /\ pc = "l64"
    /\ \/ /\ handler' = TRUE
          /\ pc' = "l66"
          /\ UNCHANGED <<run, exitStatus, started, sigPending, staleSink, dryRun>>
          /\ UNCHANGED <<sessVars, sinkVars, pipeVars>>
       \/ Fatal

\* main going on to join without a scanner thread
full_sync_worker_idle ==
    /\ Running /\ pc = "l66"
    /\ Step("l68")
    /\ UNCHANGED <<started, sinks>>

\* main spawning the scanner and returning Ok(()) without joining
full_sync_worker_return ==
    /\ Running /\ pc = "l66"
    /\ started' = started \cup {"scanner"}
    /\ pc' = "l68"
    /\ exitStatus' = "returned"
    /\ ProcessGone
    /\ UNCHANGED <<run, handler, sigPending, staleSink, dryRun, sinks>>

\* main.rs:66-68   full_sync_worker(...) spawns the scanner; main then joins
full_sync_worker ==
    /\ Running /\ pc = "l66"
    /\ Spawn("scanner", "l68")
    /\ UNCHANGED sinks

\* a termination signal: before the handler is installed the default
\* disposition ends the process; afterwards the handler thread is woken
Signal ==
    /\ Running /\ ~sigPending
    /\ IF handler
         THEN /\ sigPending' = TRUE
              /\ UNCHANGED <<exitStatus, sessVars, bound, pipeVars>>
         ELSE /\ exitStatus' = "signalled"
              /\ ProcessGone
              /\ UNCHANGED sigPending
    /\ UNCHANGED <<run, pc, started, handler, staleSink, dryRun, sinks>>

\* main.rs:168   the handler thread: client.lock().unwrap()
ctrlc_lock ==
    /\ Running /\ sigPending
    /\ "handler" \notin holders["src"]
    /\ LockFree("src")
    /\ Lock("src", "handler")
    /\ UNCHANGED <<run, pc, exitStatus, started, handler, sigPending, staleSink, dryRun>>
    /\ UNCHANGED <<tokPc, cred, expiry, sinkVars, pipeVars>>

\* a handler that deregisters and returns
ctrlc_closure_return ==
    /\ Running /\ sigPending
    /\ "handler" \in holders["src"]
    /\ sinks' = Deregister(sinks)
    /\ Unlock("src", "handler")
    /\ UNCHANGED <<run, pc, exitStatus, started, handler, sigPending, staleSink, dryRun>>
    /\ UNCHANGED <<tokPc, cred, expiry, bound, pipeVars>>

\* main.rs:169-170   the handler, holding the lock: delete_audit_device,
\* exit(0)
ctrlc_closure ==
    /\ Running /\ sigPending
    /\ "handler" \in holders["src"]
    /\ sinks' = Deregister(sinks)
    /\ exitStatus' = "handled"
    /\ ProcessGone
    /\ UNCHANGED <<run, pc, started, handler, sigPending, staleSink, dryRun>>

\* a crash that bypasses the signal path
Crash ==
    /\ Running
    /\ exitStatus' = "crashed"
    /\ ProcessGone
    /\ UNCHANGED <<run, pc, started, handler, sigPending, staleSink, dryRun, sinks>>

\* the engine is started again: the stores keep their state
Restart ==
    /\ ~Running /\ run < MaxRuns
    /\ run' = run + 1
    /\ staleSink' = Exists(sinks)
    /\ dryRun' \in BOOLEAN
    /\ pc' = "l38"
    /\ exitStatus' = "running"
    /\ started' = {}
    /\ handler' = FALSE
    /\ sigPending' = FALSE
    /\ holders' = [s \in Stores |-> {}]
    /\ tokPc' = [s \in Stores |-> "sleep"]
    /\ cred' = [s \in Stores |-> 0]
    /\ expiry' = [s \in Stores |-> 0]
    /\ bound' = FALSE
    /\ connOpen' = FALSE
    /\ line' = NoLine
    /\ others' = 0
    /\ tasks' = 0
    /\ sinceBad' = "clean"
    /\ queue' = <<>>
    /\ sentLog' = <<>>
    /\ nRecv' = 0
    /\ dstCalls' = 0
    /\ lastCall' = <<>>
    /\ scanPc' = "sleep"
    /\ scanTodo' = <<>>
    /\ scanHeld' = None
    /\ scanLog' = <<>>
    /\ srcStable' = FALSE
    /\ quiet' = FALSE
    /\ failed' = {}
    /\ failedDel' = {}
    /\ UNCHANGED <<sinks, src, dst>>

Startup ==
    \/ load_config
    \/ vault_client("l42", "l44")
    \/ token_worker("l44", "src_token", "l47")
    \/ vault_client("l47", "l49")
    \/ token_worker("l49", "dst_token", "l51")
    \/ sync_worker
    \/ delete_audit_device
    \/ log_sync_worker
    \/ add_audit_device
    \/ ctrlc_handler
    \/ full_sync_worker

\* ---------------------------------------------------------------- token renewal
TokenUp(s) == Running /\ TokenOf(s) \in started

\* the renewal is due: the thread takes the session
renew_lock(s) ==
    /\ TokenUp(s)
    /\ tokPc[s] \in {"sleep", "retry"}
    /\ LockFree(s)
    /\ Lock(s, TokenOf(s))
    /\ tokPc' = [tokPc EXCEPT ![s] = "renew"]
    /\ UNCHANGED <<run, pc, exitStatus, started, handler, sigPending, staleSink, dryRun>>
    /\ UNCHANGED <<cred, expiry, sinkVars, pipeVars>>

\* the renewal call: the new credential is stored, or the call fails (also
\* when the authentication has expired) and the thread lets go and waits for
\* its next turn
renew_call(s) ==
    /\ TokenUp(s)
    /\ tokPc[s] = "renew"
    /\ \/ /\ cred' = [cred EXCEPT ![s] = 1 - @]
          /\ tokPc' = [tokPc EXCEPT ![s] = "commit"]
          /\ UNCHANGED holders
       \/ /\ Unlock(s, TokenOf(s))
          /\ tokPc' = [tokPc EXCEPT ![s] = "retry"]
          /\ UNCHANGED cred
    /\ UNCHANGED <<run, pc, exitStatus, started, handler, sigPending, staleSink, dryRun>>
    /\ UNCHANGED <<expiry, sinkVars, pipeVars>>

\* the expiry of the new credential is stored and the session released
renew_commit(s) ==
    /\ TokenUp(s)
    /\ tokPc[s] = "commit"
    /\ expiry' = [expiry EXCEPT ![s] = cred[s]]
    /\ Unlock(s, TokenOf(s))
    /\ tokPc' = [tokPc EXCEPT ![s] = "sleep"]
    /\ UNCHANGED <<run, pc, exitStatus, started, handler, sigPending, staleSink, dryRun>>
    /\ UNCHANGED <<cred, sinkVars, pipeVars>>

Renewal == \E s \in Stores : renew_lock(s) \/ renew_call(s) \/ renew_commit(s)

\* ---------------------------------------------------------------- wiring
\* arguments main() hands to the workers
ListenerPrefix_dst == DstPrefix
ListenerPrefix_root == <<"secret">>
ListenerPrefix == SrcPrefix     \* main.rs:62
ScannerPrefix_dst  == DstPrefix
ScannerPrefix_root == <<"secret">>
ScannerPrefix  == SrcPrefix     \* main.rs:158
ApplySrcPrefix_root == <<"secret">>
ApplySrcPrefix == SrcPrefix     \* main.rs:54
ApplyDstPrefix_src == SrcPrefix
ApplyDstPrefix == DstPrefix     \* main.rs:55
ApplyDryRun_off == FALSE
ApplyDryRun    == dryRun        \* main.rs:58

\* ---------------------------------------------------------------- channel
\* mpsc::Sender::send appends, mpsc::Receiver::recv takes the oldest
Send_front(q, e) == <<e>> \o q
Send(q, e) == Append(q, e)
Recv_newest(q) == q[Len(q)]
Recv(q)    == Head(q)
Rest_keep(q) == q
Rest(q)    == Tail(q)

Event(id, e) == [id |-> id, kind |-> e.kind, path |-> e.path, value |-> e.value]

SendEvent(e) ==
    /\ Len(sentLog) < MaxEvents
    /\ Len(queue) < MaxQueue
    /\ queue' = Send(queue, Event(Len(sentLog) + 1, e))
    /\ sentLog' = Append(sentLog, e)

\* ---------------------------------------------------------------- stores
StoreSet(store, p, v) == IF p \in DOMAIN store
                           THEN [store EXCEPT ![p] = v]
                           ELSE (p :> v) @@ store

IsLeaf(store, p) == p \in DOMAIN store /\ store[p] # 0

\* list(node): the names of the children of node
Children(store, node) ==
    { p[Len(node) + 1] : p \in {q \in DOMAIN store : store[q] # 0 /\ IsPrefix(node, q)} }

\* the recursive listing: the leaves below node, folders descended into
RECURSIVE Walk(_, _)
Walk(store, node) ==
    LET RECURSIVE Visit(_)
        Visit(S) ==
            IF S = {} THEN <<>>
            ELSE LET c == CHOOSE x \in S : TRUE
                     p == Append(node, c)
                 IN  (IF IsLeaf(store, p) THEN <<p>> ELSE Walk(store, p))
                     \o Visit(S \ {c})
    IN  Visit(Children(store, node))

\* ---------------------------------------------------------------- source store and audit feed
CanForward == connOpen /\ Exists(sinks) /\ line = NoLine

\* the source store serves a request and forwards its audit record, or the
\* record is missed (no sink, no connection, a dropped connection)
Forward(l) ==
    \/ /\ CanForward
       /\ line' = l
    \/ UNCHANGED line

SrcWrite(p, v) ==
    /\ Running
    /\ src[p] # v
    /\ src' = [src EXCEPT ![p] = v]
    /\ Forward(Record("write", p, "success", v))
    /\ srcStable' = FALSE
    /\ quiet' = FALSE
    /\ UNCHANGED <<procVars, sinkVars, connOpen, others, tasks, sinceBad, dst, chanVars>>
    /\ UNCHANGED <<scanPc, scanTodo, scanHeld, scanLog>>

SrcDelete(p) ==
    /\ Running
    /\ src[p] # 0
    /\ src' = [src EXCEPT ![p] = 0]
    /\ Forward(Record("delete", p, "success", 0))
    /\ srcStable' = FALSE
    /\ quiet' = FALSE
    /\ UNCHANGED <<procVars, sinkVars, connOpen, others, tasks, sinceBad, dst, chanVars>>
    /\ UNCHANGED <<scanPc, scanTodo, scanHeld, scanLog>>

\* any other request, and garbage on the connection
OtherRequest(l) ==
    /\ Running
    /\ CanForward
    /\ line' = l
    /\ UNCHANGED <<procVars, sinkVars, connOpen, others, tasks, sinceBad>>
    /\ UNCHANGED <<storeVars, chanVars, scanVars, quiet>>

\* ---------------------------------------------------------------- listener
\* connections open to the listener
Open == (IF connOpen THEN 1 ELSE 0) + others

Listening == Running /\ "listener" \in started /\ bound

\* an accept loop that takes the connection and starts no thread for it
Accept_nospawn ==
    /\ Listening
    /\ Exists(sinks)
    /\ ~connOpen /\ Open < MaxConns
    /\ connOpen' = TRUE
    /\ line' = NoLine
    /\ sinceBad' = "clean"
    /\ UNCHANGED <<others, tasks>>
    /\ UNCHANGED <<procVars, sinkVars, storeVars, chanVars, scanVars, quiet>>

\* main.rs:139-146   the accept loop takes the source store's audit
\* connection and spawns its ingestion thread
Accept ==
    /\ Listening
    /\ Exists(sinks)
    /\ ~connOpen /\ Open < MaxConns
    /\ connOpen' = TRUE
    /\ tasks' = tasks + 1
    /\ line' = NoLine
    /\ sinceBad' = "clean"
    /\ UNCHANGED others
    /\ UNCHANGED <<procVars, sinkVars, storeVars, chanVars, scanVars, quiet>>

\* main.rs:139-146   the same for a connection from any other peer; its
\* ingestion thread waits for a line
AcceptOther ==
    /\ Listening
    /\ Open < MaxConns
    /\ others' = others + 1
    /\ tasks' = tasks + 1
    /\ UNCHANGED <<connOpen, line, sinceBad>>
    /\ UNCHANGED <<procVars, sinkVars, storeVars, chanVars, scanVars, quiet>>

\* main.rs:140   incoming() yields an Err: the loop goes on to the next
AcceptErr ==
    /\ Listening
    /\ UNCHANGED vars

\* the audit connection is closed or dropped: its ingestion thread ends
ConnClose ==
    /\ Running
    /\ connOpen
    /\ connOpen' = FALSE
    /\ tasks' = tasks - 1
    /\ line' = NoLine
    /\ sinceBad' = "clean"
    /\ quiet' = (quiet /\ line = NoLine)
    /\ UNCHANGED others
    /\ UNCHANGED <<procVars, sinkVars, storeVars, chanVars, scanVars>>

\* another peer's connection is closed: its ingestion thread ends
CloseOther ==
    /\ Running
    /\ others > 0
    /\ others' = others - 1
    /\ tasks' = tasks - 1
    /\ UNCHANGED <<connOpen, line, sinceBad>>
    /\ UNCHANGED <<procVars, sinkVars, storeVars, chanVars, scanVars, quiet>>

\* ---------------------------------------------------------------- translator
translate(prefix, l) ==
    IF ~l.json THEN None
    ELSE IF l.outcome = "success" /\ IsPrefix(prefix, l.path)
         THEN IF l.verb = "write" THEN Put(l.path, l.value)
              ELSE IF l.verb = "delete" THEN Delete(l.path)
              ELSE None
         ELSE None

\* the ingestion task reads one line, translates it and sends the event
log_sync ==
    /\ Running
    /\ connOpen
    /\ line # NoLine
    /\ LET ev == translate(ListenerPrefix, line)
       IN  IF ev = None
             THEN UNCHANGED <<chanVars, quiet>>
             ELSE /\ SendEvent(ev)
                  /\ quiet' = FALSE
                  /\ UNCHANGED <<nRecv, dstCalls, lastCall, failed, failedDel>>
    /\ line' = NoLine
    /\ sinceBad' = IF ~line.json /\ sinceBad = "clean" THEN "bad"
                   ELSE IF sinceBad = "bad" /\ translate(ListenerPrefix, line) # None
                          THEN "sent"
                          ELSE sinceBad
    /\ UNCHANGED <<procVars, sinkVars, connOpen, others, tasks, storeVars, scanVars>>

\* ---------------------------------------------------------------- scanner
ScannerUp == Running /\ "scanner" \in started

\* the timer fires: a new cycle begins
scan_tick ==
    /\ ScannerUp
    /\ scanPc \in {"sleep", "retry"}
    /\ scanPc' = "list"
    /\ scanTodo' = <<>>
    /\ scanHeld' = None
    /\ scanLog' = <<>>
    /\ srcStable' = FALSE
    /\ quiet' = FALSE
    /\ UNCHANGED <<procVars, sinkVars, feedVars, storeVars, chanVars>>

\* list the tree; a listing failure aborts the cycle
scan_start ==
    /\ ScannerUp
    /\ scanPc = "list"
    /\ LockFree("src")
    /\ \/ /\ scanTodo' = Walk(src, ScannerPrefix)
          /\ scanPc' = "scan"
          /\ srcStable' = TRUE
          /\ quiet' = (queue = <<>> /\ line = NoLine)
       \/ /\ scanPc' = "retry"
          /\ UNCHANGED <<scanTodo, srcStable, quiet>>
    /\ UNCHANGED <<scanHeld, scanLog>>
    /\ UNCHANGED <<procVars, sinkVars, feedVars, storeVars, chanVars>>

\* read the next leaf; a read failure aborts the cycle
scan_read ==
    /\ ScannerUp
    /\ scanPc = "scan" /\ scanHeld = None /\ scanTodo # <<>>
    /\ LockFree("src")
    /\ LET p == Head(scanTodo)
       IN  \/ /\ IsLeaf(src, p)
              /\ scanHeld' = Put(p, src[p])
              /\ scanTodo' = Tail(scanTodo)
              /\ UNCHANGED <<scanPc, scanLog, srcStable, quiet>>
           \/ /\ scanHeld' = None
              /\ scanTodo' = <<>>
              /\ scanPc' = "retry"
              /\ scanLog' = <<>>
              /\ srcStable' = FALSE
              /\ quiet' = FALSE
    /\ UNCHANGED <<procVars, sinkVars, feedVars, storeVars, chanVars>>

scan_send ==
    /\ ScannerUp
    /\ scanPc = "scan" /\ scanHeld # None
    /\ SendEvent(scanHeld)
    /\ scanHeld' = None
    /\ scanLog' = Append(scanLog, scanHeld)
    /\ UNCHANGED <<nRecv, dstCalls, lastCall, failed, failedDel>>
    /\ UNCHANGED <<procVars, sinkVars, feedVars, storeVars>>
    /\ UNCHANGED <<scanPc, scanTodo, srcStable, quiet>>

scan_finish ==
    /\ ScannerUp
    /\ scanPc = "scan" /\ scanHeld = None /\ scanTodo = <<>>
    /\ scanPc' = "done"
    /\ UNCHANGED <<procVars, sinkVars, feedVars, storeVars, chanVars>>
    /\ UNCHANGED <<scanTodo, scanHeld, scanLog, srcStable, quiet>>

\* the scanner goes back to sleep until the next tick
scan_sleep ==
    /\ ScannerUp
    /\ scanPc = "done"
    /\ scanPc' = "sleep"
    /\ scanLog' = <<>>
    /\ srcStable' = FALSE
    /\ UNCHANGED <<procVars, sinkVars, feedVars, storeVars, chanVars>>
    /\ UNCHANGED <<scanTodo, scanHeld, quiet>>

\* ---------------------------------------------------------------- apply
\* one iteration of the apply loop: receive, rewrite, write or delete
apply ==
    /\ Running /\ "sync" \in started
    /\ queue # <<>>
    /\ LET e == Recv(queue)
           p == Rewrite(ApplySrcPrefix, ApplyDstPrefix, e.path)
       IN  /\ queue' = Rest(queue)
           /\ nRecv' = nRecv + 1
           /\ IF ApplyDryRun
                THEN UNCHANGED <<dst, dstCalls, lastCall, failed, failedDel, quiet>>
                ELSE /\ LockFree("dst")
                     /\ dstCalls' = dstCalls + 1
                     /\ lastCall' = p
                     /\ \/ /\ dst' = StoreSet(dst, p, e.value)
                           /\ UNCHANGED <<failed, failedDel, quiet>>
                        \/ /\ failed' = IF e.kind = "Put" THEN failed \cup {e.path} ELSE failed
                           /\ failedDel' = IF e.kind = "Delete" THEN failedDel \cup {e.path}
                                                              ELSE failedDel
                           /\ quiet' = FALSE
                           /\ UNCHANGED dst
    /\ UNCHANGED <<sentLog, src>>
    /\ UNCHANGED <<procVars, sinkVars, feedVars, scanVars>>

SourceChange ==
    \/ \E p \in WatchedLeaves, v \in Values : SrcWrite(p, v)
    \/ \E p \in WatchedLeaves : SrcDelete(p)

\* a source change whose audit record reaches the ingestion task
FedChange ==
    /\ CanForward
    /\ SourceChange
    /\ line' # NoLine

Scanner == scan_tick \/ scan_start \/ scan_read \/ scan_send \/ scan_finish \/ scan_sleep

\* ---------------------------------------------------------------- specifications
\* the whole program and its environment.  The specifications below
\* schedule parts of it: the tasks a part leaves out never take a step
\* there.
Next ==
    \/ Startup
    \/ Signal
    \/ ctrlc_lock
    \/ ctrlc_closure
    \/ Renewal
    \/ Crash
    \/ Restart
    \/ SourceChange
    \/ \E l \in NoiseLines : OtherRequest(l)
    \/ Accept
    \/ AcceptOther
    \/ AcceptErr
    \/ ConnClose
    \/ CloseOther
    \/ log_sync
    \/ Scanner
    \/ apply

Spec == Init /\ [][Next]_vars

\* replication: startup, the source changing, the audit feed of those
\* changes, the scanner and the apply task
NextSync ==
    \/ Startup
    \/ SourceChange
    \/ Accept
    \/ log_sync
    \/ Scanner
    \/ apply

SpecSync == Init /\ [][NextSync]_vars

\* the audit feed: startup, every kind of line on the connection,
\* connections coming and going, the ingestion task and the apply task
NextFeed ==
    \/ Startup
    \/ SourceChange
    \/ \E l \in NoiseLines : OtherRequest(l)
    \/ Accept
    \/ ConnClose
    \/ log_sync
    \/ apply

SpecFeed == Init /\ [][NextFeed]_vars

\* replication over a feed that loses nothing: the source changes only
\* when its audit record is delivered, and the connection stays
NextRace ==
    \/ Startup
    \/ FedChange
    \/ Accept
    \/ log_sync
    \/ Scanner
    \/ apply

SpecRace == Init /\ [][NextRace]_vars

\* reconciliation alone: startup, the scanner over the secrets the source
\* holds, and the apply task; the scanner's timer fires again and again
NextScan ==
    \/ Startup
    \/ Scanner
    \/ apply

SpecScan == Init /\ [][NextScan]_vars /\ WF_vars(scan_tick)

\* the listener: startup, the audit connection and the connections of other
\* peers coming and going, failed accepts, the ingestion and apply tasks
NextConn ==
    \/ Startup
    \/ SourceChange
    \/ Accept
    \/ AcceptOther
    \/ AcceptErr
    \/ ConnClose
    \/ CloseOther
    \/ log_sync
    \/ apply

SpecConn == Init /\ [][NextConn]_vars

\* the sessions at shutdown: startup, the renewal threads, signals and the
\* handler.  A renewal call returns, a thread that holds a session goes on,
\* and a thread waiting in lock() gets the session when it is free again
\* and again (the renewal threads sleep between renewals).
NextSession ==
    \/ Startup
    \/ Renewal
    \/ Signal
    \/ ctrlc_lock
    \/ ctrlc_closure

SpecSession ==
    /\ Init /\ [][NextSession]_vars
    /\ \A s \in Stores : WF_vars(renew_call(s)) /\ WF_vars(renew_commit(s))
    /\ SF_vars(ctrlc_lock)
    /\ WF_vars(ctrlc_closure)

\* the sessions in use: startup, the renewal threads, the threads that
\* call the stores (main, the scanner, the apply task, the handler)
NextLock ==
    \/ Startup
    \/ Renewal
    \/ Scanner
    \/ apply
    \/ Signal
    \/ ctrlc_lock
    \/ ctrlc_closure

SpecLock == Init /\ [][NextLock]_vars

\* failures: startup, the renewal threads, the scanner and the apply task
\* with their store calls, malformed lines on the audit connection, signals
\* and the handler
NextFail ==
    \/ Startup
    \/ Renewal
    \/ Scanner
    \/ apply
    \/ Accept
    \/ OtherRequest(BadLine)
    \/ log_sync
    \/ Signal
    \/ ctrlc_lock
    \/ ctrlc_closure

SpecFail == Init /\ [][NextFail]_vars

\* the life of the process: startup, signals, crashes and restarts
NextLife == Startup \/ Signal \/ ctrlc_lock \/ ctrlc_closure \/ Crash \/ Restart

SpecLife == Init /\ [][NextLife]_vars


\* ================================================================ claims
DstOf(p) == Rewrite(SrcPrefix, DstPrefix, p)

AfterRegistration == {"l64", "l66", "l68"}

\* C4: each fatal startup failure (bind, authentication against either
\* store, registration) ends the process with a non-zero status before any
\* worker thread has been started.
C4_FatalBeforeAnyWorker ==
    exitStatus = "fatal" => started = {}

\* C5: once the startup registration has succeeded, a termination signal
\* never ends the process with the sink still registered.
C5_SignalDeregisters ==
    (exitStatus \in {"signalled", "handled"} /\ pc \in AfterRegistration)
        => ~Exists(sinks)

\* C6: startup deregisters before it registers, the deregistration never
\* surfaces an error (also when no sink exists), and after the registration
\* of any run, a restart after an unclean exit included, exactly one sink
\* is registered and the existence check is true.
C6_RegisterIdempotent ==
    /\ exitStatus = "fatal" => pc # "l61"
    /\ (Running /\ pc = "l63") => ~Exists(sinks)
    /\ (Running /\ pc \in AfterRegistration) => (sinks = 1 /\ Exists(sinks))

\* the second run has registered although the first left its sink behind
C6_Witness ==
    /\ run = 2 /\ staleSink
    /\ Running /\ pc = "l64"
    /\ sinks = 1


\* ---------------------------------------------------------------- replication
Max(S) == CHOOSE m \in S : \A n \in S : n <= m

\* the last event sent for path x in this run, None if there was none
LastSent(x) ==
    LET I == {i \in 1..Len(sentLog) : sentLog[i].path = x}
    IN  IF I = {} THEN None ELSE sentLog[Max(I)]

\* C1: with dry-run off, once the queue is drained the destination holds,
\* at the rewritten path of x, the value of the last Put sent for x, if the
\* last event sent for x is a Put and no Put for x failed at the store.
C1_LastPutWins ==
    \A x \in WatchedLeaves :
        (/\ Running /\ ~dryRun
         /\ queue = <<>>
         /\ LastSent(x).kind = "Put"
         /\ x \notin failed)
            => dst[DstOf(x)] = LastSent(x).value

\* Put(x,1) then Put(x,2) were sent and both have been applied
C1_Witness ==
    /\ Running /\ ~dryRun
    /\ sentLog = <<Put(PathA, 1), Put(PathA, 2)>>
    /\ queue = <<>> /\ nRecv = 2
    /\ failed = {}
    /\ dst[DstOf(PathA)] = 2

\* a scan cycle has completed, and since it began the source did not
\* change, no store call failed and no other event entered the queue, which
\* is now drained
HealedByScan ==
    /\ Running /\ ~dryRun
    /\ quiet
    /\ scanPc \in {"done", "sleep"}
    /\ queue = <<>>

\* C2 as stated: after such a scan the secrets and values under the
\* destination prefix are those under the watched source prefix.
C2_ScanRestoresAll ==
    HealedByScan => \A p \in WatchedLeaves : dst[DstOf(p)] = src[p]

\* C2 amended: after such a scan every secret that exists under the watched
\* source prefix is at its rewritten destination path with the source's
\* value; a secret deleted from the source may remain at the destination.
C2_ScanRestoresPresent ==
    HealedByScan =>
        \A p \in WatchedLeaves : src[p] # 0 => dst[DstOf(p)] = src[p]

\* both source writes were missed by the feed and one scan delivered them
C2_Witness ==
    /\ HealedByScan
    /\ scanPc = "done"
    /\ sentLog = scanLog /\ Len(scanLog) = 2
    /\ src[PathA] = 2 /\ src[PathBC] = 1
    /\ dst[DstOf(PathA)] = 2 /\ dst[DstOf(PathBC)] = 1

\* C3: an event whose store call failed is not put back on the queue, and
\* for a path p whose Put failed and that still exists in the source, a
\* completed scan has sent a Put with p's current value and the destination
\* holds that value.
C3_FailedPutHealed ==
    /\ Running => \A i \in 1..Len(queue) : queue[i].id > nRecv
    /\ \A p \in failed :
          (HealedByScan /\ src[p] # 0) =>
              /\ dst[DstOf(p)] = src[p]
              /\ scanPc = "done" => \E i \in 1..Len(scanLog) : scanLog[i] = Put(p, src[p])

\* the audit Put for a failed, the scan's Put for a was applied
C3_Witness ==
    /\ HealedByScan
    /\ scanPc = "done"
    /\ failed = {PathA}
    /\ nRecv = 2
    /\ sentLog = <<Put(PathA, 1), Put(PathA, 1)>>
    /\ src[PathA] = 1 /\ dst[DstOf(PathA)] = 1

\* C7: with dry-run on, no write or delete call is ever issued against the
\* destination, the destination is untouched, and every event sent is
\* either still waiting or was received.
C7_DryRun ==
    (Running /\ dryRun) =>
        /\ dstCalls = 0
        /\ dst = NoSecrets(DstLeaves)
        /\ nRecv + Len(queue) = Len(sentLog)

\* a Put and a Delete were drained in dry-run
C7_Witness ==
    /\ Running /\ dryRun
    /\ sentLog = <<Put(PathA, 1), Delete(PathA)>>
    /\ nRecv = 2 /\ queue = <<>>
    /\ dstCalls = 0

\* C8: the queue holds exactly the events sent and not yet received, in the
\* order sent: the consumer has taken the first nRecv events once each, and
\* nothing was put back or inserted elsewhere.
C8_ExactlyOnce ==
    Running =>
        /\ nRecv + Len(queue) = Len(sentLog)
        /\ \A i \in 1..Len(queue) : queue[i] = Event(nRecv + i, sentLog[nRecv + i])
        /\ ~dryRun => dstCalls = nRecv

\* two events were consumed, one of them with a failed store call
C8_Witness ==
    /\ Running /\ ~dryRun
    /\ nRecv = 2 /\ queue = <<>>
    /\ failed # {}

\* C10: the events of one scan are Puts for leaves under the watched
\* prefix, one per leaf; when the source did not change during the scan,
\* they are exactly the leaves under the prefix, each with the source's value.
C10_ScanEmitsLeaves ==
    /\ \A i \in 1..Len(scanLog) :
          /\ scanLog[i].kind = "Put"
          /\ scanLog[i].path \in WatchedLeaves
          /\ scanLog[i].value # 0
          /\ \A j \in 1..Len(scanLog) : scanLog[j].path = scanLog[i].path => j = i
    /\ (scanPc = "done" /\ srcStable) =>
          /\ {scanLog[i].path : i \in 1..Len(scanLog)} = {p \in WatchedLeaves : src[p] # 0}
          /\ \A i \in 1..Len(scanLog) : scanLog[i].value = src[scanLog[i].path]

\* a scan over the leaves a and b/c has sent two Puts
C10_Witness ==
    /\ scanPc = "done" /\ srcStable
    /\ src[PathA] # 0 /\ src[PathBC] # 0
    /\ Len(scanLog) = 2

\* ---------------------------------------------------------------- translator
Qualifies(l) ==
    /\ l.json
    /\ l.verb \in {"write", "delete"}
    /\ l.outcome = "success"
    /\ IsPrefix(SrcPrefix, l.path)

Matching(l) == IF l.verb = "write" THEN Put(l.path, l.value) ELSE Delete(l.path)

\* C9: when the ingestion task handles a line, exactly one matching event
\* is sent if the line is a successful write or delete under the watched
\* prefix, and the queue is left alone for any other line.
C9_Translate ==
    [][ (line # NoLine /\ line' = NoLine /\ connOpen')
          => IF Qualifies(line)
               THEN queue' = Append(queue, Event(Len(sentLog) + 1, Matching(line)))
               ELSE queue' = queue ]_vars

\* a write record and a delete record were translated
C9_Witness ==
    /\ connOpen /\ line = NoLine
    /\ sentLog = <<Put(PathA, 1), Delete(PathA)>>

\* ---------------------------------------------------------------- path rewrite
\* what follows the watched prefix in p
Suffix(p) == [i \in 1..(Len(p) - Len(SrcPrefix)) |-> p[i + Len(SrcPrefix)]]

\* C11: every destination call is for the path of the event it applies with
\* the leading source prefix replaced by the destination prefix and the rest
\* kept (secret/app/b/c goes to secret/app-copy/b/c), and no secret is ever
\* stored, and no call ever issued, outside the destination prefix.
C11_Rewrite ==
    /\ \A p \in DOMAIN dst : IsPrefix(DstPrefix, p)
    /\ lastCall # <<>> =>
          /\ ~dryRun /\ nRecv > 0
          /\ IsPrefix(DstPrefix, lastCall)
          /\ lastCall = DstPrefix \o Suffix(sentLog[nRecv].path)
          /\ sentLog[nRecv].path = <<"secret", "app", "b", "c">>
                => lastCall = <<"secret", "app-copy", "b", "c">>

\* a Put for secret/app/b/c was written to secret/app-copy/b/c
C11_Witness ==
    /\ Running
    /\ nRecv > 0 /\ sentLog[nRecv] = Put(PathBC, 2)
    /\ lastCall = <<"secret", "app-copy", "b", "c">>
    /\ dst[<<"secret", "app-copy", "b", "c">>] = 2

\* C12: a malformed line produces no event and leaves the connection's
\* ingestion task running, and every line the task handles after it is
\* translated as on a connection that never carried a malformed line.
C12_MalformedSkipped ==
    /\ [](sinceBad # "clean" => (Running /\ connOpen /\ tasks >= 1))
    /\ [][ (line # NoLine /\ line' = NoLine /\ connOpen')
             => /\ ~line.json => (queue' = queue /\ sentLog' = sentLog /\ sinceBad' # "clean")
                /\ sinceBad # "clean" =>
                      IF Qualifies(line)
                        THEN /\ queue' = Append(queue, Event(Len(sentLog) + 1, Matching(line)))
                             /\ sinceBad' = "sent"
                        ELSE queue' = queue ]_vars

\* a malformed line, then a delete record: one Delete was sent
C12_Witness ==
    /\ connOpen /\ line = NoLine
    /\ sinceBad = "sent"
    /\ sentLog = <<Delete(PathA)>>

\* ---------------------------------------------------------------- listener
\* C13: while the process runs there is one ingestion thread for each open
\* accepted connection and the listener can accept again; a step that closes
\* a connection ends that connection's ingestion thread and leaves the
\* listener, the other ingestion threads, the apply thread and the queue as
\* they were (a failed accept changes nothing at all).
C13_OneTaskPerConnection ==
    /\ [](Running => tasks = Open)
    /\ []((Listening /\ Open < MaxConns) => ENABLED AcceptOther)
    /\ [][ (Running' /\ Open' < Open)
             => /\ tasks' = tasks - 1
                /\ tasks' = Open'
                /\ started' = started /\ bound' = bound
                /\ queue' = queue ]_vars

\* the audit connection has delivered an event and is gone; another peer's
\* connection is still served
C13_Witness ==
    /\ Listening
    /\ ~connOpen /\ others = 1 /\ tasks = 1
    /\ sentLog # <<>>

\* ---------------------------------------------------------------- startup errors
\* C18: when main returns an error after this run has registered its sink
\* (the handler could not be installed), no sink is left registered.
C18_FatalLeavesNoSink ==
    (exitStatus = "fatal" /\ pc \in AfterRegistration) => ~Exists(sinks)

\* ---------------------------------------------------------------- scan and feed
\* nothing is queued and no producer holds a line or an event
Quiescent ==
    /\ Running /\ ~dryRun
    /\ queue = <<>>
    /\ line = NoLine
    /\ scanHeld = None /\ scanPc # "scan"

NoCallFailed == failed = {} /\ failedDel = {}

PutApplied(x) ==
    \E i \in 1..nRecv : sentLog[i].kind = "Put" /\ sentLog[i].path = x

\* C20 as stated: with no event dropped and no store call failed, in a
\* quiescent state every path for which a Put was applied holds, at its
\* rewritten destination path, the source's current value.
C20_NeverStale ==
    (Quiescent /\ NoCallFailed) =>
        \A x \in WatchedLeaves : PutApplied(x) => dst[DstOf(x)] = src[x]

\* C20 amended: in such a state the destination holds the value carried by
\* the last event sent for the path, and it differs from the source's
\* current value only where that last event is a Put carrying another value
\* (a value the scanner read before the source changed).
C20_LastEventWins ==
    (Quiescent /\ NoCallFailed) =>
        \A x \in WatchedLeaves :
            PutApplied(x) =>
                /\ dst[DstOf(x)] = LastSent(x).value
                /\ dst[DstOf(x)] # src[x] =>
                      (LastSent(x).kind = "Put" /\ LastSent(x).value # src[x])

\* the scanner read a = 1, the source wrote a = 2, the feed's Put(a,2) was
\* sent before the scanner's Put(a,1): the destination ends with 1
C20_Witness ==
    /\ Quiescent /\ NoCallFailed
    /\ sentLog = <<Put(PathA, 2), Put(PathA, 1)>>
    /\ nRecv = 2
    /\ src[PathA] = 2
    /\ dst[DstOf(PathA)] = 1

\* ---------------------------------------------------------------- scan cycles
\* C16: once main has spawned it the scanner is up; a failed listing or read
\* ends the cycle and nothing else (the scanner waits for the next tick with
\* nothing in hand), and whenever the scanner waits for a tick, after a
\* completed or an aborted cycle, a new cycle begins.
C16_ScansRecur ==
    /\ []((Running /\ pc = "l68") => ScannerUp)
    /\ [](scanPc = "retry" =>
             (ScannerUp /\ scanTodo = <<>> /\ scanHeld = None /\ ENABLED scan_tick))
    /\ [][ (scanPc \in {"list", "scan"} /\ scanPc' = "retry")
             => (queue' = queue /\ dst' = dst /\ started' = started /\ Running') ]_vars
    /\ (ScannerUp /\ scanPc \in {"sleep", "retry"}) ~> (scanPc = "list")

\* a cycle that had sent an event was aborted; the scanner waits for the
\* next tick
C16_Witness ==
    /\ ScannerUp
    /\ scanPc = "retry"
    /\ sentLog # <<>>

\* ---------------------------------------------------------------- sessions
\* a call on store s by a thread other than its renewal thread
Call(s) ==
    /\ Running /\ Running'
    /\ IF s = "dst"
         THEN dstCalls' # dstCalls
         ELSE \/ sinks' # sinks
              \/ scanPc = "list" /\ scanPc' # "list"
              \/ /\ scanPc = "scan" /\ scanHeld = None
                 /\ (scanHeld' # None \/ scanPc' = "retry")

\* C14: at most one thread is inside a store's session at a time; no call
\* is made on a session while its renewal thread is inside, so the state
\* between the new credential and its expiry is seen by the renewal thread
\* alone; a renewal that fails leaves credential and expiry as they were and
\* the renewal thread up, ready to take the session again.
C14_SessionExclusive ==
    /\ [](\A s \in Stores : Cardinality(holders[s]) <= 1)
    /\ [](\A s \in Stores : cred[s] # expiry[s] => holders[s] = {TokenOf(s)})
    /\ [](\A s \in Stores :
            tokPc[s] = "retry" =>
                /\ TokenUp(s) /\ cred[s] = expiry[s]
                /\ LockFree(s) => ENABLED renew_lock(s))
    /\ [][ \A s \in Stores :
              /\ Call(s) => TokenOf(s) \notin holders[s]
              /\ (tokPc[s] = "renew" /\ tokPc'[s] = "retry")
                    => (cred' = cred /\ expiry' = expiry /\ started' = started) ]_vars

\* the renewal of the destination session is half done while an event
\* waits for the apply thread; the source renewal has failed before
C14_Witness ==
    /\ Running /\ ~dryRun
    /\ queue # <<>>
    /\ cred["dst"] # expiry["dst"] /\ holders["dst"] = {"dst_token"}
    /\ tokPc["src"] = "retry"

\* ---------------------------------------------------------------- failures
\* C15: once startup has completed all five workers are up; from then on a
\* step either leaves the process running, with every worker and every
\* ingestion thread still there, or is the signal handler's exit: nothing
\* else, a failed store call or an unparsable line included, ends the
\* process or a thread.
C15_FailuresContained ==
    /\ []((Running /\ pc = "l68") => started = Workers)
    /\ []((~Running /\ pc = "l68") => exitStatus = "handled")
    /\ [][ (Running /\ pc = "l68")
             => IF Running'
                  THEN started' = started /\ tasks' >= tasks
                  ELSE /\ sigPending /\ "handler" \in holders["src"]
                       /\ exitStatus' = "handled" ]_vars

\* a destination write, a scan cycle and both renewals have failed and a
\* malformed line was read: everything is still up
C15_Witness ==
    /\ Running /\ pc = "l68"
    /\ started = Workers /\ connOpen /\ tasks = 1
    /\ failed # {}
    /\ scanPc = "retry"
    /\ tokPc = [s \in Stores |-> "retry"]
    /\ sinceBad = "bad"

\* ---------------------------------------------------------------- registration order
\* C17: main registers the sink only with the listener bound and its
\* accept loop started and with no sink left registered, and a sink this
\* run has registered is never there while the listener socket is not bound.
C17_SinkOnlyWhileBound ==
    /\ (Running /\ pc = "l63") => (bound /\ "listener" \in started /\ ~Exists(sinks))
    /\ (pc \in AfterRegistration /\ Exists(sinks)) => bound

\* ---------------------------------------------------------------- shutdown
\* a signal delivered to the handler leads to the exit of the process with
\* the sink deregistered; the handler takes the source session, which the
\* renewal thread holds only for the length of a renewal; a thread that is
\* inside a session is never waiting for another one
HandlerCompletes ==
    /\ sigPending ~> (exitStatus = "handled")
    /\ [](exitStatus = "handled" => ~Exists(sinks))
    /\ [][ (Running /\ ~Running' /\ sigPending) => "handler" \in holders["src"] ]_vars
    /\ [](\A s \in Stores :
            /\ TokenOf(s) \in holders[s] => (ENABLED renew_call(s) \/ ENABLED renew_commit(s))
            /\ "handler" \in holders[s] => (s = "src" /\ ENABLED ctrlc_closure))

\* C19: shutdown always completes: every termination signal is followed by
\* the exit of the process with no sink of this run left registered, the
\* handler getting the source session it shares with the other threads, and
\* no thread inside a session ever waiting for another one.
C19_ShutdownCompletes ==
    /\ HandlerCompletes
    /\ [](exitStatus = "signalled" => ~(pc \in AfterRegistration /\ Exists(sinks)))

\* the signal is pending while both renewal threads are inside their
\* sessions: the handler waits for the source session
HandlerWaits ==
    /\ Running /\ sigPending
    /\ holders = [s \in Stores |-> {TokenOf(s)}]
    /\ tokPc["src"] = "commit"

====
